---- MODULE Spec2Model ----
(***************************************************************************)
(* Model of the two maintenance scripts of the repository:                 *)
(*                                                                         *)
(*   plans/move_cycle_to_completed.py  (the "Archive Relocator")           *)
(*   scale_weapon_damage.py            (the "Value Rescaler")              *)
(*                                                                         *)
(* Each script is a single-threaded, one-shot program.  The relocator is   *)
(* modelled step by step (argument check, mkdir, glob, one step per loop   *)
(* iteration, summary); the rescaler's scale_weapon_damage is an operator  *)
(* on a file, applied by a driver.  The filesystem is part of the state.   *)
(*                                                                         *)
(* Text is a sequence of tokens: a command-line argument is a sequence of  *)
(* one-character strings, a file name is a sequence whose first token is   *)
(* the fixed stem "DevCycle_2025_" followed by one-character tokens and a  *)
(* tail token.                                                             *)
(***************************************************************************)
EXTENDS Integers, Sequences, FiniteSets, TLC

VARIABLES
    \* ---- Archive Relocator ----
    argv,            \* sys.argv (element 1 is the script name)
    pc,              \* position of the relocator's control flow
    cycle_number,    \* main's local, the parsed argument
    src,             \* the plans directory: name -> content or Absent
    completed,       \* what plans/completed is: "absent", "dir" or "file"
    dst,             \* entries of plans/completed: name -> content or Absent
    matching_files,  \* the matches of the glob not yet visited by the loop
    moved_count,     \* move_cycle_files' local counter
    out,             \* lines printed on stdout, as records
    exit_code,       \* process exit code (-1 while running)
    src0, dst0, completed0,  \* the filesystem before the run
    \* ---- Value Rescaler ----
    theme_dirs,      \* theme -> does the theme directory exist
    files,           \* <<theme, weapon_file>> -> file state
    files0,          \* the files before the first run
    rpc,             \* position of the rescaler's driver
    theme_ix,        \* index of the theme main's outer loop is at
    file_ix,         \* index of the weapon file main's inner loop is at
    total_files_changed, \* main's counter
    rout,            \* lines printed on stdout by the rescaler's main
    rexit_code,      \* process exit code of the rescaler (-1 while running)
    scale_factor,    \* the factor scale_weapon_damage is called with
    calls            \* the calls of scale_weapon_damage made so far

relocVars == <<argv, pc, cycle_number, src, completed, dst, matching_files,
               moved_count, out, exit_code, src0, dst0, completed0>>
rescVars  == <<theme_dirs, files, files0, rpc, theme_ix, file_ix,
               total_files_changed, rout, rexit_code, scale_factor, calls>>
vars == <<relocVars, rescVars>>

---------------------------------------------------------------------------
(* Bounds of the model *)

\* longest command-line argument enumerated, in characters
MaxArgLen == 5

\* damage values 0..MaxDamage (and 10) appear in the weapon documents
MaxDamage == 1

\* scale_weapon_damage is called with the factors 1..MaxFactor and the default
MaxFactor == 2

\* number of consecutive calls of scale_weapon_damage on one file
MaxRuns == 2

---------------------------------------------------------------------------
(* Text helpers *)

DigitChars == <<"0", "1", "2", "3", "4", "5", "6", "7", "8", "9">>

IsDigit(c) == \E i \in 1..10 : DigitChars[i] = c

DigitVal(c) == (CHOOSE i \in 1..10 : DigitChars[i] = c) - 1

RECURSIVE DecVal(_)
\* value of a non-empty sequence of decimal digits
DecVal(s) ==
    IF Len(s) = 0 THEN 0
    ELSE 10 * DecVal(SubSeq(s, 1, Len(s) - 1)) + DigitVal(s[Len(s)])

\* int(text) for text over the characters 0-9, "-" and letters:
\* an optional sign followed by at least one digit, else ValueError.
ParseInt(s) ==
    LET neg  == Len(s) > 0 /\ s[1] = "-"
        body == IF neg THEN Tail(s) ELSE s
        ok   == Len(body) > 0 /\ \A i \in 1..Len(body) : IsDigit(body[i])
    IN  [ok |-> ok,
         val |-> IF ok THEN (IF neg THEN 0 - DecVal(body) ELSE DecVal(body)) ELSE 0]

RECURSIVE Digits(_)
\* decimal digits of n >= 0
Digits(n) ==
    IF n < 10 THEN <<DigitChars[n + 1]>>
    ELSE Append(Digits(n \div 10), DigitChars[(n % 10) + 1])

RECURSIVE ZeroFill(_, _)
ZeroFill(s, width) == IF Len(s) >= width THEN s ELSE ZeroFill(<<"0">> \o s, width)

\* f"{cycle_number:04d}" for cycle_number >= 0
Format04d(n) == ZeroFill(Digits(n), 4)

\* the text before the "*" of the glob pattern
Prefix(n) == <<"DevCycle_2025_">> \o Format04d(n)

StartsWith(name, p) == Len(name) >= Len(p) /\ SubSeq(name, 1, Len(p)) = p

---------------------------------------------------------------------------
(* Archive Relocator: inputs *)

Absent == "absent"

\* names an entry of the plans directory may have
N_13       == <<"DevCycle_2025_", "0", "0", "1", "3", ".md">>
N_13_bugs  == <<"DevCycle_2025_", "0", "0", "1", "3", "_bugs_01.md">>
N_113      == <<"DevCycle_2025_", "0", "1", "1", "3", ".md">>
N_short    == <<"DevCycle_2025_", "0", "1", "3", ".md">>
N_readme   == <<"README.md">>
Names == {N_13, N_13_bugs, N_113, N_short, N_readme}

ScriptName == <<"move_cycle_to_completed.py">>

ArgChars == {"0", "1", "3", "9", "-", "x"}

RECURSIVE SeqsUpTo(_, _)
SeqsUpTo(S, n) ==
    IF n = 0 THEN {<<>>}
    ELSE LET shorter == SeqsUpTo(S, n - 1)
         IN  shorter \cup {Append(s, c) : s \in {t \in shorter : Len(t) = n - 1}, c \in S}

ArgStrings == SeqsUpTo(ArgChars, MaxArgLen)

Msg(kind, name, count) == [kind |-> kind, name |-> name, count |-> count]

---------------------------------------------------------------------------
(* Archive Relocator: main *)

\* a range check that lets 0 through
InRangeFromZero(n) == ~(n < 0 \/ n > 9999)

\* the negation of "cycle_number < 1 or cycle_number > 9999"
InRange(n) == ~(n < 1 \/ n > 9999)

\* main, up to the call of move_cycle_files: the argument count, int() and
\* the range check.  sys.exit(1) ends the process at once.
Main ==
    /\ pc = "main"
    /\ UNCHANGED rescVars
    /\ UNCHANGED <<argv, src, completed, dst, matching_files, moved_count,
                   src0, dst0, completed0>>
    /\ IF Len(argv) # 2
       THEN /\ out' = out \o <<Msg("Usage", <<>>, 0), Msg("Example", <<>>, 0)>>
            /\ exit_code' = 1
            /\ pc' = "exit"
            /\ UNCHANGED cycle_number
       ELSE LET r == ParseInt(argv[2]) IN
            IF ~r.ok
            THEN /\ out' = Append(out, Msg("ErrorNotInteger", <<>>, 0))
                 /\ exit_code' = 1
                 /\ pc' = "exit"
                 /\ UNCHANGED cycle_number
            ELSE IF ~InRange(r.val)
            THEN /\ out' = Append(out, Msg("ErrorOutOfRange", <<>>, 0))
                 /\ exit_code' = 1
                 /\ pc' = "exit"
                 /\ cycle_number' = r.val
            ELSE /\ out' = Append(out, Msg("Moving", Format04d(r.val), 0))
                 /\ cycle_number' = r.val
                 /\ pc' = "mkdir"
                 /\ UNCHANGED exit_code

(* Archive Relocator: move_cycle_files *)

\* completed_dir.mkdir(exist_ok=True): creates the directory, accepts an
\* existing directory, raises FileExistsError when the path is a file; the
\* exception reaches main's "except Exception" (print, sys.exit(1)).
Mkdir ==
    /\ pc = "mkdir"
    /\ UNCHANGED rescVars
    /\ UNCHANGED <<argv, cycle_number, src, dst, matching_files, moved_count,
                   src0, dst0, completed0>>
    /\ IF completed = "file"
       THEN /\ out' = Append(out, Msg("Error", <<>>, 0))
            /\ exit_code' = 1
            /\ pc' = "exit"
            /\ UNCHANGED completed
       ELSE /\ completed' = "dir"
            /\ pc' = "glob"
            /\ UNCHANGED <<out, exit_code>>

\* a glob on the stem alone, whatever the cycle
GlobMatchesAnyCycle(n) == {f \in Names : src[f] # Absent /\ StartsWith(f, <<"DevCycle_2025_">>)}

\* script_dir.glob(pattern): the entries of the plans directory whose name
\* starts with the prefix
GlobMatches(n) == {f \in Names : src[f] # Absent /\ StartsWith(f, Prefix(n))}

\* a glob step without the early return on an empty match list
GlobNoEarlyReturn ==
    /\ pc = "glob"
    /\ UNCHANGED rescVars
    /\ UNCHANGED <<argv, cycle_number, src, completed, dst, src0, dst0, completed0>>
    /\ out' = Append(out, Msg("Found", <<>>, Cardinality(GlobMatches(cycle_number))))
    /\ matching_files' = GlobMatches(cycle_number)
    /\ moved_count' = 0
    /\ pc' = "loop"
    /\ UNCHANGED exit_code

\* pattern, glob, the "no files" early return, moved_count = 0
Glob ==
    /\ pc = "glob"
    /\ UNCHANGED rescVars
    /\ UNCHANGED <<argv, cycle_number, src, completed, dst, src0, dst0, completed0>>
    /\ LET found == GlobMatches(cycle_number) IN
       IF found = {}
       THEN /\ out' = Append(out, Msg("NoFilesFound", Prefix(cycle_number), 0))
            /\ exit_code' = 0
            /\ pc' = "exit"
            /\ UNCHANGED <<matching_files, moved_count>>
       ELSE /\ out' = Append(out, Msg("Found", <<>>, Cardinality(found)))
            /\ matching_files' = found
            /\ moved_count' = 0
            /\ pc' = "loop"
            /\ UNCHANGED exit_code

\* an existence check that never sees the destination
DestinationNeverExists(f) == FALSE

\* destination.exists()
DestinationExists(f) == dst[f] # Absent

\* one loop iteration whose destination exists: warning, continue
SkipExisting(f) ==
    /\ pc = "loop"
    /\ f \in matching_files
    /\ DestinationExists(f)
    /\ out' = Append(out, Msg("WarningSkipping", f, 0))
    /\ matching_files' = matching_files \ {f}
    /\ UNCHANGED rescVars
    /\ UNCHANGED <<argv, cycle_number, src, completed, dst, moved_count,
                   exit_code, pc, src0, dst0, completed0>>

\* one loop iteration in which shutil.move returns: the entry leaves the
\* source directory and appears in the destination
MoveSucceeds(f) ==
    /\ pc = "loop"
    /\ f \in matching_files
    /\ ~DestinationExists(f)
    /\ dst' = [dst EXCEPT ![f] = src[f]]
    /\ src' = [src EXCEPT ![f] = Absent]
    /\ out' = Append(out, Msg("Moved", f, 0))
    /\ moved_count' = moved_count + 1
    /\ matching_files' = matching_files \ {f}
    /\ UNCHANGED rescVars
    /\ UNCHANGED <<argv, cycle_number, completed, exit_code, pc,
                   src0, dst0, completed0>>

\* a failing move whose exception leaves the loop and reaches main
MoveFailsAborts(f) ==
    /\ pc = "loop"
    /\ f \in matching_files
    /\ ~DestinationExists(f)
    /\ out' = Append(out, Msg("Error", <<>>, 0))
    /\ exit_code' = 1
    /\ pc' = "exit"
    /\ UNCHANGED rescVars
    /\ UNCHANGED <<argv, cycle_number, src, completed, dst, matching_files,
                   moved_count, src0, dst0, completed0>>

\* one loop iteration in which shutil.move raises (permissions): the
\* exception is caught and reported.  Either nothing was changed, or the
\* rename was refused, the copy to the destination was made and removing
\* the source failed (copied = TRUE).  The source entry stays in both cases.
MoveFails(f) ==
    /\ pc = "loop"
    /\ f \in matching_files
    /\ ~DestinationExists(f)
    /\ \E copied \in BOOLEAN :
          dst' = IF copied THEN [dst EXCEPT ![f] = src[f]] ELSE dst
    /\ out' = Append(out, Msg("ErrorMoving", f, 0))
    /\ matching_files' = matching_files \ {f}
    /\ UNCHANGED rescVars
    /\ UNCHANGED <<argv, cycle_number, src, completed, moved_count, exit_code,
                   pc, src0, dst0, completed0>>

\* the loop is over: the summary line; main returns and the process exits 0
Summary ==
    /\ pc = "loop"
    /\ matching_files = {}
    /\ out' = Append(out, Msg("Completed", <<>>, moved_count))
    /\ exit_code' = 0
    /\ pc' = "exit"
    /\ UNCHANGED rescVars
    /\ UNCHANGED <<argv, cycle_number, src, completed, dst, matching_files,
                   moved_count, src0, dst0, completed0>>

NextMove ==
    \/ Main
    \/ Mkdir
    \/ Glob
    \/ \E f \in Names : SkipExisting(f)
    \/ \E f \in Names : MoveSucceeds(f)
    \/ \E f \in Names : MoveFails(f)
    \/ Summary

\* the rescaler is not running
RescalerIdle ==
    /\ theme_dirs = <<>>
    /\ files = <<>>
    /\ files0 = <<>>
    /\ rpc = "idle"
    /\ theme_ix = 0
    /\ file_ix = 0
    /\ total_files_changed = 0
    /\ rout = <<>>
    /\ rexit_code = -1
    /\ scale_factor = 0
    /\ calls = <<>>

\* the relocator before main runs, on a filesystem holding the given entries
RelocatorStart(args, srcNames, kind, dstNames) ==
    /\ argv = <<ScriptName>> \o args
    /\ pc = "main"
    /\ cycle_number = 0
    /\ src = [f \in Names |-> IF f \in srcNames THEN "plan" ELSE Absent]
    /\ completed = kind
    /\ dst = [f \in Names |-> IF kind = "dir" /\ f \in dstNames THEN "archived" ELSE Absent]
    /\ matching_files = {}
    /\ moved_count = 0
    /\ out = <<>>
    /\ exit_code = -1
    /\ src0 = src
    /\ dst0 = dst
    /\ completed0 = completed

\* arguments of the runs whose moves are explored: cycles 13, 113 and 9
MoveArgs == {<<"1", "3">>, <<"0", "0", "1", "3">>, <<"1", "1", "3">>, <<"9">>}

\* Valid cycle numbers over every filesystem
InitMove ==
    /\ RescalerIdle
    /\ \E a \in MoveArgs, srcNames \in SUBSET Names, dstNames \in SUBSET Names,
          kind \in {"absent", "dir", "file"} :
          /\ (kind # "dir" => dstNames = {})
          /\ RelocatorStart(<<a>>, srcNames, kind, dstNames)

SpecMove == InitMove /\ [][NextMove]_vars

\* Every argument list over a few filesystems
InitArgs ==
    /\ RescalerIdle
    /\ \E args \in {<<>>} \cup {<<a>> : a \in ArgStrings}
                   \cup {<<a, b>> : a \in MoveArgs, b \in MoveArgs},
          dstNames \in {{}, {N_13}},
          kind \in {"absent", "dir", "file"} :
          /\ (kind # "dir" => dstNames = {})
          /\ RelocatorStart(args, Names, kind, dstNames)

SpecArgs == InitArgs /\ [][NextMove]_vars

---------------------------------------------------------------------------
(* Archive Relocator: properties *)

\* the argument is not the text of an integer of [1, 9999]
ArgInvalid(s) == LET r == ParseInt(s) IN ~r.ok \/ r.val < 1 \/ r.val > 9999

\* the entries of the source directory, before the run, that start with
\* the prefix of the cycle
Matches0 == {f \in Names : src0[f] # Absent /\ StartsWith(f, Prefix(cycle_number))}

Reports(kind, f) == {i \in 1..Len(out) : out[i].kind = kind /\ out[i].name = f}

Reported(kind, f) == Reports(kind, f) # {}

GlobDone == \E i \in 1..Len(out) : out[i].kind \in {"Found", "NoFilesFound"}

\* the loop ran to its end and the process exited normally
RunCompleted == pc = "exit" /\ exit_code = 0

\* C1: with one argument that is not an integer of [1, 9999], main never
\* enters move_cycle_files, the filesystem stays as it was (nothing moved,
\* plans/completed not created), and the process ends with exit code 1.
C1_InvalidArgNoMutation ==
    (Len(argv) = 2 /\ ArgInvalid(argv[2])) =>
        /\ pc \in {"main", "exit"}
        /\ src = src0 /\ dst = dst0 /\ completed = completed0
        /\ matching_files = {} /\ moved_count = 0
        /\ (pc = "main" => exit_code = -1)
        /\ (pc = "exit" => exit_code = 1)

\* the argument 0 (the integer just below the range), rejected with
\* plans/completed absent
C1_Witness ==
    /\ Len(argv) = 2 /\ argv[2] = <<"0">>
    /\ pc = "exit" /\ exit_code = 1
    /\ completed0 = "absent" /\ completed = "absent"
    /\ out = <<Msg("ErrorOutOfRange", <<>>, 0)>>

\* C2 as stated: after a completed run every entry that started with the
\* prefix and had no namesake at the destination is at the destination and
\* gone from the source; an entry with a namesake is still in the source;
\* the other entries are where they were.
C2_AsStated ==
    RunCompleted =>
        \A f \in Names :
            IF f \in Matches0
            THEN IF dst0[f] = Absent
                 THEN dst[f] = src0[f] /\ src[f] = Absent
                 ELSE src[f] = src0[f]
            ELSE src[f] = src0[f] /\ dst[f] = dst0[f]

\* C2 amended: as C2, except that an entry whose move failed (reported as an
\* error) is still in the source, with or without a copy at the destination.
C2_MovedSkippedOrFailed ==
    RunCompleted =>
        \A f \in Names :
            IF f \in Matches0
            THEN IF dst0[f] # Absent
                 THEN src[f] = src0[f] /\ dst[f] = dst0[f]
                 ELSE IF Reported("ErrorMoving", f)
                 THEN src[f] = src0[f] /\ dst[f] \in {Absent, src0[f]}
                 ELSE dst[f] = src0[f] /\ src[f] = Absent
            ELSE src[f] = src0[f] /\ dst[f] = dst0[f]

\* cycle 13: one entry moved, its sibling kept back by a collision, the
\* entry of cycle 113 left alone
C2_Witness ==
    /\ RunCompleted /\ cycle_number = 13
    /\ src0[N_13] # Absent /\ src[N_13] = Absent /\ dst[N_13] = "plan"
    /\ src0[N_13_bugs] # Absent /\ dst0[N_13_bugs] # Absent /\ src[N_13_bugs] = "plan"
    /\ src0[N_113] # Absent /\ src[N_113] = "plan" /\ dst[N_113] = Absent
    /\ ~Reported("ErrorMoving", N_13)

\* C3: once the loop has visited a match whose name already exists in the
\* destination, the source entry and the destination entry are as before the
\* run, the file was reported once as skipped and never as moved or as an
\* error, the moved count counts the moved files only, and a run that
\* completes has visited every match.
C3_CollisionSkipped ==
    /\ \A f \in Names :
        (GlobDone /\ f \in Matches0 /\ f \notin matching_files /\ dst0[f] # Absent) =>
            /\ src[f] = src0[f] /\ dst[f] = dst0[f]
            /\ Cardinality(Reports("WarningSkipping", f)) = 1
            /\ ~Reported("Moved", f) /\ ~Reported("ErrorMoving", f)
    /\ (GlobDone => moved_count = Cardinality({f \in Names : Reported("Moved", f)}))
    /\ ((RunCompleted /\ \E f \in Matches0 : dst0[f] # Absent) =>
            /\ out[Len(out)] = Msg("Completed", <<>>, moved_count)
            /\ \A g \in Matches0 :
                  Reported("Moved", g) \/ Reported("WarningSkipping", g)
                      \/ Reported("ErrorMoving", g))

\* a collision on the first match visited, a move after it
C3_Witness ==
    /\ RunCompleted /\ Len(out) = 5
    /\ out[3] = Msg("WarningSkipping", N_13, 0)
    /\ out[4] = Msg("Moved", N_13_bugs, 0)
    /\ moved_count = 1
    /\ src[N_13] = "plan" /\ dst[N_13] = "archived"

\* C8 as stated: a valid cycle number with no match ends with the summary
\* line reporting 0 moved and exit code 0, and nothing moved (read here for
\* the runs in which plans/completed is absent or a directory).
C8_AsStated ==
    (pc = "exit" /\ Len(argv) = 2 /\ ~ArgInvalid(argv[2]) /\ Matches0 = {}
        /\ completed0 # "file") =>
        /\ exit_code = 0
        /\ out[Len(out)] = Msg("Completed", <<>>, 0)
        /\ src = src0 /\ dst = dst0

\* C8 amended: a valid cycle number with no match, plans/completed being
\* absent or a directory, ends with the "No files found" line and no
\* summary line, exit code 0, nothing moved; plans/completed being a file,
\* the run ends with exit code 1 and nothing changed.
C8_NoFilesReported ==
    (pc = "exit" /\ Len(argv) = 2 /\ ~ArgInvalid(argv[2]) /\ Matches0 = {}) =>
        IF completed0 = "file"
        THEN exit_code = 1 /\ src = src0 /\ dst = dst0 /\ completed = "file"
        ELSE /\ exit_code = 0
             /\ out[Len(out)] = Msg("NoFilesFound", Prefix(cycle_number), 0)
             /\ \A i \in 1..Len(out) : out[i].kind # "Completed"
             /\ src = src0 /\ dst = dst0 /\ completed = "dir"

\* cycle 9 in a directory that holds files of other cycles
C8_Witness ==
    /\ pc = "exit" /\ exit_code = 0 /\ cycle_number = 9
    /\ src0[N_13] # Absent /\ src0[N_113] # Absent
    /\ completed0 = "absent"
    /\ out = <<Msg("Moving", <<"0", "0", "0", "9">>, 0),
               Msg("NoFilesFound", <<"DevCycle_2025_", "0", "0", "0", "9">>, 0)>>

\* C10: a failed move does not end the loop: once the loop has started, the
\* process ends only with exit code 0 after the summary line, every match
\* having been visited and reported exactly once (moved, skipped or failed),
\* and the moved count is the number of entries that left the source
\* directory (failed and skipped ones are not counted).
C10_FailureIsolated ==
    /\ (GlobDone => moved_count = Cardinality({f \in Matches0 : src[f] = Absent}))
    /\ ((pc = "exit" /\ \E i \in 1..Len(out) : out[i].kind = "Found") =>
            /\ exit_code = 0
            /\ out[Len(out)] = Msg("Completed", <<>>, moved_count)
            /\ \A g \in Matches0 :
                  Cardinality(Reports("Moved", g)) + Cardinality(Reports("WarningSkipping", g))
                      + Cardinality(Reports("ErrorMoving", g)) = 1
            /\ \A g \in Matches0 : Reported("Moved", g) <=> src[g] = Absent)

\* the first match fails, the second is moved after it, the count is 1
C10_Witness ==
    /\ RunCompleted /\ Len(out) = 5
    /\ out[3] = Msg("ErrorMoving", N_13, 0)
    /\ out[4] = Msg("Moved", N_13_bugs, 0)
    /\ out[5] = Msg("Completed", <<>>, 1)
    /\ src[N_13] = "plan" /\ src[N_13_bugs] = Absent

---------------------------------------------------------------------------
(* Value Rescaler: documents and files *)

\* scale_factor=5, the default of scale_weapon_damage's parameter
DefaultFactor == 5

\* main's themes and weapon_files lists; a path is <<theme, weapon_file>>
Themes == <<"test_theme", "civil_war">>
WeaponFiles == <<"ranged-weapons.json", "melee-weapons.json">>
Paths == {<<Themes[t], WeaponFiles[w]>> : t \in 1..Len(Themes), w \in 1..Len(WeaponFiles)}

\* A JSON object is a function from its keys; the empty object:
EmptyObject == [k \in {} |-> 0]

DamageValues == (0..MaxDamage) \cup {10}

\* weapon records: with or without "damage", with or without another attribute
WeaponRecords ==
    {[damage |-> d, range |-> 7] : d \in DamageValues}
        \cup {[damage |-> d] : d \in DamageValues}
        \cup {[range |-> 7], EmptyObject}

RangedSections == UNION {[ids -> WeaponRecords] : ids \in SUBSET {"pistol", "rifle"}}
MeleeSections  == UNION {[ids -> WeaponRecords] : ids \in SUBSET {"knife"}}

\* weapon documents: each of "weapons", "meleeWeapons" and a third field
\* present or not
Docs ==
    {[weapons |-> w, meleeWeapons |-> m, version |-> 1] : w \in RangedSections, m \in MeleeSections}
        \cup {[weapons |-> w, meleeWeapons |-> m] : w \in RangedSections, m \in MeleeSections}
        \cup {[weapons |-> w, version |-> 1] : w \in RangedSections}
        \cup {[weapons |-> w] : w \in RangedSections}
        \cup {[meleeWeapons |-> m, version |-> 1] : m \in MeleeSections}
        \cup {[meleeWeapons |-> m] : m \in MeleeSections}
        \cup {[version |-> 1], EmptyObject}

\* A file is missing, holds text that is not JSON, or holds a document in
\* some layout: "authored" (as written by hand) or "indent2" (as written by
\* json.dump(data, f, indent=2)).
MissingFile   == [kind |-> "missing", text |-> "", data |-> EmptyObject]
MalformedFile == [kind |-> "malformed", text |-> "authored", data |-> EmptyObject]
JsonFile(text, data) == [kind |-> "json", text |-> text, data |-> data]

Layouts == {"authored", "indent2"}

---------------------------------------------------------------------------
(* Value Rescaler: scale_weapon_damage *)

ScaledFields == {"weapons", "meleeWeapons"}

\* one of the two loops: every record of the section that has "damage" gets
\* damage * scale_factor, the rest of the record is kept
ScaleSection(section, factor) ==
    [weapon_id \in DOMAIN section |->
        IF "damage" \in DOMAIN section[weapon_id]
        THEN [section[weapon_id] EXCEPT !["damage"] = @ * factor]
        ELSE section[weapon_id]]

\* a rescaling that forgets the melee weapons
ScaleDataRangedOnly(data, factor) ==
    [k \in DOMAIN data |->
        IF k = "weapons" THEN ScaleSection(data[k], factor) ELSE data[k]]

\* data after the two loops
ScaleData(data, factor) ==
    [k \in DOMAIN data |->
        IF k \in ScaledFields THEN ScaleSection(data[k], factor) ELSE data[k]]

\* a flag that is set whatever the loops find
ChangesMadeAlways(data) == TRUE

\* changes_made after the two loops: some record had "damage"
ChangesMade(data) ==
    \E k \in ScaledFields \cap DOMAIN data :
        \E weapon_id \in DOMAIN data[k] : "damage" \in DOMAIN data[k][weapon_id]

\* a rescaler that leaves a file it has already laid out alone
ScaleWeaponDamageOnce(file, factor) ==
    IF file.text = "indent2"
    THEN [raised |-> FALSE, changes_made |-> FALSE, wrote |-> FALSE, file |-> file]
    ELSE [raised |-> FALSE, changes_made |-> ChangesMade(file.data),
          wrote |-> ChangesMade(file.data),
          file |-> IF ChangesMade(file.data)
                   THEN JsonFile("indent2", ScaleData(file.data, factor)) ELSE file]

\* scale_weapon_damage(file_path, scale_factor) on an existing file: json.load
\* raises on text that is not JSON; else the two loops, and the file is
\* opened for writing and dumped with indent=2 only if changes_made.
\* (The per-weapon lines it prints are not kept.)
ScaleWeaponDamage(file, factor) ==
    IF file.kind = "malformed"
    THEN [raised |-> TRUE, changes_made |-> FALSE, wrote |-> FALSE, file |-> file]
    ELSE LET data         == file.data
             changes_made == ChangesMade(data)
         IN  [raised |-> FALSE,
              changes_made |-> changes_made,
              wrote |-> changes_made,
              file |-> IF changes_made
                       THEN JsonFile("indent2", ScaleData(data, factor))
                       ELSE file]

\* the record of one call
Call(path, factor, before, r) ==
    [path |-> path, factor |-> factor, before |-> before, after |-> r.file,
     changed |-> r.changes_made, wrote |-> r.wrote, raised |-> r.raised]

\* A call of scale_weapon_damage(file_path, scale_factor) on a file that holds
\* a document, repeated at most MaxRuns times.
ScaleCall ==
    /\ rpc = "call"
    /\ Len(calls) < MaxRuns
    /\ \E p \in Paths :
        /\ files[p].kind = "json"
        /\ LET r == ScaleWeaponDamage(files[p], scale_factor) IN
            /\ files' = [files EXCEPT ![p] = r.file]
            /\ calls' = Append(calls, Call(p, scale_factor, files[p], r))
            /\ rout' = rout \o <<Msg("Processing", p, 0),
                                 Msg(IF r.changes_made THEN "Updated" ELSE "NoDamageValues", p, 0)>>
    /\ UNCHANGED <<theme_dirs, files0, rpc, theme_ix, file_ix, total_files_changed,
                   rexit_code, scale_factor>>
    /\ UNCHANGED relocVars

---------------------------------------------------------------------------
(* Value Rescaler: main *)

\* a driver that reports a failing file and goes on to the next
NextFileCatches ==
    /\ rpc = "file"
    /\ LET p == <<Themes[theme_ix], WeaponFiles[file_ix]>> IN
        /\ IF files[p].kind = "missing"
           THEN /\ rout' = Append(rout, Msg("WarningFileNotFound", p, 0))
                /\ UNCHANGED <<files, calls, total_files_changed>>
           ELSE LET r == ScaleWeaponDamage(files[p], scale_factor) IN
                /\ files' = [files EXCEPT ![p] = r.file]
                /\ calls' = Append(calls, Call(p, scale_factor, files[p], r))
                /\ total_files_changed' = total_files_changed + (IF r.changes_made THEN 1 ELSE 0)
                /\ rout' = Append(rout, Msg("Processing", p, 0))
        /\ IF file_ix < Len(WeaponFiles)
           THEN file_ix' = file_ix + 1 /\ UNCHANGED <<theme_ix, rpc>>
           ELSE file_ix' = 0 /\ theme_ix' = theme_ix + 1 /\ rpc' = "theme"
    /\ UNCHANGED <<theme_dirs, files0, scale_factor, rexit_code>>
    /\ UNCHANGED relocVars

\* the head of the outer loop for the next theme: the theme directory is
\* missing (warning, continue) or the inner loop starts
NextTheme ==
    /\ rpc = "theme"
    /\ theme_ix <= Len(Themes)
    /\ IF ~theme_dirs[Themes[theme_ix]]
       THEN /\ rout' = rout \o <<Msg("ProcessingTheme", <<Themes[theme_ix]>>, 0),
                                 Msg("WarningThemeDirNotFound", <<Themes[theme_ix]>>, 0)>>
            /\ theme_ix' = theme_ix + 1
            /\ UNCHANGED <<rpc, file_ix>>
       ELSE /\ rout' = Append(rout, Msg("ProcessingTheme", <<Themes[theme_ix]>>, 0))
            /\ rpc' = "file"
            /\ file_ix' = 1
            /\ UNCHANGED theme_ix
    /\ UNCHANGED <<theme_dirs, files, files0, total_files_changed, rexit_code,
                   scale_factor, calls>>
    /\ UNCHANGED relocVars

\* one pass of the inner loop: a missing file is reported; an existing one
\* is given to scale_weapon_damage, whose exception nothing catches (the
\* process ends with a traceback on stderr and exit code 1), and whose
\* result decides whether total_files_changed grows
NextFile ==
    /\ rpc = "file"
    /\ LET p == <<Themes[theme_ix], WeaponFiles[file_ix]>> IN
        IF files[p].kind = "missing"
        THEN /\ rout' = Append(rout, Msg("WarningFileNotFound", p, 0))
             /\ IF file_ix < Len(WeaponFiles)
                THEN file_ix' = file_ix + 1 /\ UNCHANGED <<theme_ix, rpc>>
                ELSE file_ix' = 0 /\ theme_ix' = theme_ix + 1 /\ rpc' = "theme"
             /\ UNCHANGED <<files, calls, total_files_changed, rexit_code>>
        ELSE LET r == ScaleWeaponDamage(files[p], scale_factor) IN
             /\ calls' = Append(calls, Call(p, scale_factor, files[p], r))
             /\ IF r.raised
                THEN /\ rout' = Append(rout, Msg("Processing", p, 0))
                     /\ rexit_code' = 1
                     /\ rpc' = "exit"
                     /\ UNCHANGED <<files, total_files_changed, theme_ix, file_ix>>
                ELSE /\ files' = [files EXCEPT ![p] = r.file]
                     /\ total_files_changed' =
                            total_files_changed + (IF r.changes_made THEN 1 ELSE 0)
                     /\ rout' = rout \o <<Msg("Processing", p, 0),
                                          Msg(IF r.changes_made THEN "Updated"
                                              ELSE "NoDamageValues", p, 0)>>
                     /\ IF file_ix < Len(WeaponFiles)
                        THEN file_ix' = file_ix + 1 /\ UNCHANGED <<theme_ix, rpc>>
                        ELSE file_ix' = 0 /\ theme_ix' = theme_ix + 1 /\ rpc' = "theme"
                     /\ UNCHANGED rexit_code
    /\ UNCHANGED <<theme_dirs, files0, scale_factor>>
    /\ UNCHANGED relocVars

\* after the loops: the closing lines; main returns and the process exits 0
Finish ==
    /\ rpc = "theme"
    /\ theme_ix > Len(Themes)
    /\ rout' = rout \o <<Msg("Complete", <<>>, 0), Msg("FilesUpdated", <<>>, total_files_changed)>>
    /\ rexit_code' = 0
    /\ rpc' = "exit"
    /\ UNCHANGED <<theme_dirs, files, files0, theme_ix, file_ix, total_files_changed,
                   scale_factor, calls>>
    /\ UNCHANGED relocVars

\* the relocator is not running
RelocatorIdle ==
    /\ argv = <<>>
    /\ pc = "idle"
    /\ cycle_number = 0
    /\ src = <<>>
    /\ completed = Absent
    /\ dst = <<>>
    /\ matching_files = {}
    /\ moved_count = 0
    /\ out = <<>>
    /\ exit_code = -1
    /\ src0 = <<>>
    /\ dst0 = <<>>
    /\ completed0 = Absent

\* the rescaler before it runs, at position start with the given factor
RescalerStart(start, factor, dirs, fs) ==
    /\ theme_dirs = dirs
    /\ files = fs
    /\ files0 = fs
    /\ rpc = start
    /\ theme_ix = 1
    /\ file_ix = 0
    /\ total_files_changed = 0
    /\ rout = <<>>
    /\ rexit_code = -1
    /\ scale_factor = factor
    /\ calls = <<>>

Factors == (1..MaxFactor) \cup {DefaultFactor}

\* scale_weapon_damage on one file holding any document, with any factor
InitScale ==
    /\ RelocatorIdle
    /\ \E d \in Docs, text \in Layouts, factor \in Factors :
          RescalerStart("call", factor,
                        [t \in {"test_theme", "civil_war"} |-> t = "test_theme"],
                        [p \in Paths |-> IF p = <<"test_theme", "ranged-weapons.json">>
                                         THEN JsonFile(text, d) ELSE MissingFile])

SpecScale == InitScale /\ [][ScaleCall]_vars

\* the documents of the files main is run on
MainDocs ==
    {[version |-> 1],
     [weapons |-> [pistol |-> [range |-> 7]], meleeWeapons |-> [knife |-> [range |-> 7]]],
     [weapons |-> [pistol |-> [damage |-> 10]]],
     [weapons |-> [pistol |-> [damage |-> 10, range |-> 7], rifle |-> [range |-> 7]],
      meleeWeapons |-> [knife |-> [damage |-> 1]], version |-> 1]}

MainFiles == {MissingFile, MalformedFile} \cup {JsonFile(text, d) : text \in Layouts, d \in MainDocs}

\* main on every combination of theme directories and files (a theme
\* directory that does not exist holds no file)
InitMain ==
    /\ RelocatorIdle
    /\ \E dirs \in [{"test_theme", "civil_war"} -> BOOLEAN], fs \in [Paths -> MainFiles] :
          /\ \A p \in Paths : ~dirs[p[1]] => fs[p] = MissingFile
          /\ RescalerStart("theme", DefaultFactor, dirs, fs)

NextMain == NextTheme \/ NextFile \/ Finish

SpecMain == InitMain /\ [][NextMain]_vars

---------------------------------------------------------------------------
(* Value Rescaler: properties *)

RECURSIVE Pow(_, _)
Pow(b, e) == IF e = 0 THEN 1 ELSE b * Pow(b, e - 1)

\* the records of a document that have "damage", as <<field, weapon_id>>
DamageRecords(data) ==
    {kw \in UNION {{<<k, id>> : id \in DOMAIN data[k]} : k \in ScaledFields \cap DOMAIN data} :
        "damage" \in DOMAIN data[kw[1]][kw[2]]}

RReported(kind, name) == \E i \in 1..Len(rout) : rout[i].kind = kind /\ rout[i].name = name

\* C4: every call that returned left the document with the same fields, the
\* same weapons and the same attributes; each "damage" is the old damage
\* times the factor, once; every other attribute and every other top-level
\* field is as read.
C4_DamageScaledOnce ==
    \A i \in 1..Len(calls) :
        LET b == calls[i].before.data
            a == calls[i].after.data
        IN  ~calls[i].raised =>
            /\ DOMAIN a = DOMAIN b
            /\ \A k \in DOMAIN b :
                IF k \in ScaledFields
                THEN /\ DOMAIN a[k] = DOMAIN b[k]
                     /\ \A id \in DOMAIN b[k] :
                         /\ DOMAIN a[k][id] = DOMAIN b[k][id]
                         /\ \A attr \in DOMAIN b[k][id] :
                              a[k][id][attr] = IF attr = "damage"
                                               THEN b[k][id][attr] * calls[i].factor
                                               ELSE b[k][id][attr]
                ELSE a[k] = b[k]

\* the pistol of damage 10 with factor 5, and a knife scaled in the same file
C4_Witness ==
    /\ Len(calls) = 1 /\ calls[1].factor = 5
    /\ calls[1].before.data =
          [weapons |-> [pistol |-> [damage |-> 10], rifle |-> [range |-> 7]],
           meleeWeapons |-> [knife |-> [damage |-> 1, range |-> 7]], version |-> 1]
    /\ files[calls[1].path].data =
          [weapons |-> [pistol |-> [damage |-> 50], rifle |-> [range |-> 7]],
           meleeWeapons |-> [knife |-> [damage |-> 5, range |-> 7]], version |-> 1]

\* C5 as stated: a call that wrote the file back changed the damage of at
\* least one record (read here for the default factor, the one main uses).
C5_AsStated ==
    \A i \in 1..Len(calls) :
        (calls[i].wrote /\ calls[i].factor = DefaultFactor) =>
            \E kw \in DamageRecords(calls[i].before.data) :
                calls[i].after.data[kw[1]][kw[2]]["damage"]
                    # calls[i].before.data[kw[1]][kw[2]]["damage"]

\* C6: a call on a document without any "damage" under "weapons" and
\* "meleeWeapons" does not open the file for writing, leaves the file as it
\* was and returns false; main's count of files updated is the number of
\* calls that returned true.
C6_NoDamageUntouched ==
    /\ \A i \in 1..Len(calls) :
          (~calls[i].raised /\ DamageRecords(calls[i].before.data) = {}) =>
              /\ ~calls[i].wrote
              /\ ~calls[i].changed
              /\ calls[i].after = calls[i].before
              /\ files[calls[i].path] = files0[calls[i].path]
              /\ RReported("NoDamageValues", calls[i].path)
              /\ ~RReported("Updated", calls[i].path)
    /\ total_files_changed = Cardinality({i \in 1..Len(calls) : calls[i].changed})

\* main met a hand-written file without damage values and a file it updated
C6_Witness ==
    /\ rpc = "exit" /\ rexit_code = 0 /\ Len(calls) = 4
    /\ calls[1].before = JsonFile("authored", [version |-> 1])
    /\ calls[2].before.data =
          [weapons |-> [pistol |-> [range |-> 7]], meleeWeapons |-> [knife |-> [range |-> 7]]]
    /\ calls[3].changed
    /\ files[calls[1].path] = JsonFile("authored", [version |-> 1])
    /\ total_files_changed = 1

\* C7: the i-th call in a row on a file leaves every damage at the original
\* value times factor^i (d, d*factor, d*factor*factor): each call on a
\* document with a "damage" rescales and writes again.
C7_NotIdempotent ==
    \A i \in 1..Len(calls) :
        LET d0 == files0[calls[i].path].data IN
        /\ \A kw \in DamageRecords(d0) :
              /\ calls[i].after.data[kw[1]][kw[2]]["damage"]
                    = d0[kw[1]][kw[2]]["damage"] * Pow(calls[i].factor, i)
              /\ calls[i].changed /\ calls[i].wrote
        /\ (i = Len(calls) => files[calls[i].path] = calls[i].after)

\* 10, 50, 250 with factor 5
C7_Witness ==
    /\ Len(calls) = 2 /\ scale_factor = 5
    /\ files0[calls[1].path].data = [weapons |-> [pistol |-> [damage |-> 10]]]
    /\ calls[1].after.data = [weapons |-> [pistol |-> [damage |-> 50]]]
    /\ files[calls[2].path].data = [weapons |-> [pistol |-> [damage |-> 250]]]

\* C9 as stated: the rescaler's main always ends with exit code 0.
C9_AsStated == rpc = "exit" => rexit_code = 0

\* the weapon files that hold malformed JSON (each in a theme directory
\* that exists, so main reaches the first of them)
ReachedMalformed == {p \in Paths : files0[p].kind = "malformed"}

\* C9 amended: the exit code is 0 when no weapon file holds malformed JSON;
\* then every missing theme directory and every missing file of an existing
\* theme was reported on stdout and the closing count was printed.  With a
\* malformed file the exception leaves main: exit code 1, the last line on
\* stdout is the "Processing" line of that file and no count is printed.
C9_ExitCode ==
    rpc = "exit" =>
        IF ReachedMalformed = {}
        THEN /\ rexit_code = 0
             /\ rout[Len(rout)] = Msg("FilesUpdated", <<>>, total_files_changed)
             /\ \A t \in 1..Len(Themes) :
                   ~theme_dirs[Themes[t]] => RReported("WarningThemeDirNotFound", <<Themes[t]>>)
             /\ \A p \in Paths :
                   (theme_dirs[p[1]] /\ files0[p].kind = "missing")
                       => RReported("WarningFileNotFound", p)
        ELSE /\ rexit_code = 1
             /\ calls[Len(calls)].raised
             /\ calls[Len(calls)].path \in ReachedMalformed
             /\ rout[Len(rout)] = Msg("Processing", calls[Len(calls)].path, 0)
             /\ \A i \in 1..Len(rout) : rout[i].kind # "FilesUpdated"

\* a missing theme directory and a missing file, exit code 0
C9_Witness ==
    /\ rpc = "exit" /\ rexit_code = 0
    /\ ~theme_dirs["test_theme"] /\ theme_dirs["civil_war"]
    /\ files0[<<"civil_war", "ranged-weapons.json">>].kind = "missing"
    /\ files0[<<"civil_war", "melee-weapons.json">>].kind = "json"
    /\ total_files_changed = 1

====
